---- MODULE Spec2Model ----
(***************************************************************************)
(* Model of the ingestion core of business-analytics-platform:             *)
(*   src/ingestion/data_loader.py      DataLoader                          *)
(*   src/ingestion/validators.py       DataValidator                       *)
(*   src/ingestion/data_cleaner.py     DataCleaner                         *)
(*   src/ingestion/cleaning_pipeline.py CleaningPipeline                   *)
(*                                                                         *)
(* A DataFrame is a record [present, cols, dtype, rows]: the set of column *)
(* labels, the dtype pandas gave each column when the CSV was read, and    *)
(* the rows in order, each row carrying its index label idx.  A cell is    *)
(* <<>> for NaN and <<v>> for a value v.  Text that the code strips or     *)
(* matches against a pattern is a sequence of one-character strings.       *)
(***************************************************************************)
EXTENDS Integers, Sequences, FiniteSets, TLC

VARIABLES
    files,              \* the raw CSV files of raw_data_dir
    pc,                 \* where run() stands
    raw_datasets,       \* run(): raw_datasets
    cleaned_datasets,   \* run(): cleaned_datasets
    cleaning_log,       \* self.cleaner.cleaning_log
    validation_errors,  \* self.cleaner.validator.validation_errors
    validation_log,     \* self.loader.validation_log
    saved,              \* the files of clean_data_dir
    summary,            \* the Data Quality Summary generate_reports prints
    result,             \* what run() returned
    calls,              \* how many times the caller invokes run() on the object
    run_no,             \* which of these calls is under way
    log_base,           \* len(cleaning_log) when this call of run() began
    errors_base         \* len(validation_errors) when this call of run() began

vars == <<files, pc, raw_datasets, cleaned_datasets, cleaning_log,
          validation_errors, validation_log, saved, summary, result,
          calls, run_no, log_base, errors_base>>

\* What only the caller of run() changes.
caller == <<calls, run_no, log_base, errors_base>>

\* ------------------------------------------------------------------ cells

NaN == <<>>

isna(c) == c = NaN

V(c) == c[1]

Names == <<"customers", "products", "orders", "order_items">>

DatasetNames == {Names[i] : i \in 1..Len(Names)}

\* The absent DataFrame: load_csv returns None.
None == [present |-> FALSE, cols |-> {}, dtype |-> <<>>, rows |-> <<>>]

\* ------------------------------------------------------------------ text

Digits == {"0", "1", "2", "3", "4", "5", "6", "7", "8", "9"}

Letters ==
    {"a", "b", "c", "d", "e", "f", "g", "h", "i", "j", "k", "l", "m",
     "n", "o", "p", "q", "r", "s", "t", "u", "v", "w", "x", "y", "z",
     "A", "B", "C", "D", "E", "F", "G", "H", "I", "J", "K", "L", "M",
     "N", "O", "P", "Q", "R", "S", "T", "U", "V", "W", "X", "Y", "Z"}

Whitespace == {" ", "\t", "\n", "\r"}

\* str.strip(): drop the leading and the trailing whitespace characters.
strip(s) ==
    LET inner == {i \in 1..Len(s) : s[i] \notin Whitespace}
    IN IF inner = {} THEN <<>>
       ELSE LET lo == CHOOSE i \in inner : \A j \in inner : i <= j
                hi == CHOOSE i \in inner : \A j \in inner : j <= i
            IN SubSeq(s, lo, hi)

\* Series.str.strip() on one cell: NaN stays NaN.
str_strip(c) == IF isna(c) THEN NaN ELSE <<strip(V(c))>>

\* str(value): the text itself, 'nan' for NaN.
str(c) == IF isna(c) THEN <<"n", "a", "n">> ELSE V(c)

\* s[:n]
Prefix(s, n) == IF Len(s) <= n THEN s ELSE SubSeq(s, 1, n)

\* ------------------------------------------------------------------ DataValidator

LocalChars == Letters \cup Digits \cup {".", "_", "%", "+", "-"}

DomainChars == Letters \cup Digits \cup {".", "-"}

\* re.match(r'^[a-zA-Z0-9._%+-]+@[a-zA-Z0-9.-]+\.[a-zA-Z]{2,}$', s)
EmailPattern(s) ==
    \E at \in 2..Len(s) : \E dot \in (at + 2)..(Len(s) - 2) :
        /\ s[at] = "@"
        /\ s[dot] = "."
        /\ \A k \in 1..(at - 1) : s[k] \in LocalChars
        /\ \A k \in (at + 1)..(dot - 1) : s[k] \in DomainChars
        /\ \A k \in (dot + 1)..Len(s) : s[k] \in Letters

validate_email(email) ==
    IF isna(email) \/ email = <<<<>>>> THEN FALSE ELSE EmailPattern(str(email))

\* Must be exactly 10 digits
PhoneDigits == 10

validate_phone(phone) ==
    IF isna(phone) \/ phone = <<<<>>>> THEN FALSE
    ELSE LET s == str(phone)
         IN Cardinality({i \in 1..Len(s) : s[i] \in Digits}) = PhoneDigits

\* Numeric cells hold integers; float(price) > 0.
validate_price(price) == IF isna(price) THEN FALSE ELSE V(price) > 0

\* A quantity cell holds the number of halves of the value (5 is 2.5), so
\* that int(quantity), which truncates toward zero, has something to cut.
int(h) == IF h >= 0 THEN h \div 2 ELSE -((-h) \div 2)

validate_quantity(quantity) ==
    IF isna(quantity) THEN FALSE ELSE int(V(quantity)) > 0

\* pd.Timestamp.now(), held fixed during a run.
Now == 2

\* A date cell holds a timestamp t >= 0, or a negative code for text that
\* pd.to_datetime cannot parse (the bare except returns False).
validate_date(date_str) ==
    IF isna(date_str) THEN FALSE
    ELSE IF V(date_str) < 0 THEN FALSE
    ELSE V(date_str) <= Now

valid_statuses == {"Pending", "Completed", "Cancelled"}

validate_order_status(status) ==
    IF isna(status) THEN FALSE ELSE V(status) \in valid_statuses

\* valid_ids = set(reference_df[ref_column].dropna()); the orphaned rows are
\* those whose fk value is not in it (positions in df.rows).
check_foreign_key(df, fk_column, reference_df, ref_column) ==
    LET valid_ids == {r[ref_column] : r \in
                        {reference_df.rows[i] : i \in 1..Len(reference_df.rows)}}
                     \ {NaN}
    IN {i \in 1..Len(df.rows) : df.rows[i][fk_column] \notin valid_ids}

ErrorEntry(dataset, row_index, column, issue, value) ==
    [dataset |-> dataset, row |-> row_index, column |-> column,
     issue |-> issue, value |-> Prefix(str(value), 50)]

\* ------------------------------------------------------------------ DataFrame

RangeOf(rows) == {rows[i] : i \in 1..Len(rows)}

\* df[~mask]: the rows whose position is not in mask, in order.
Drop(df, mask) ==
    LET F[i \in 0..Len(df.rows)] ==
            IF i = 0 THEN <<>>
            ELSE IF i \in mask THEN F[i - 1]
            ELSE Append(F[i - 1], df.rows[i])
    IN [df EXCEPT !.rows = F[Len(df.rows)]]

\* The values a row holds in the columns of subset.
KeyOf(row, subset) == [c \in subset |-> row[c]]

\* Mutant: duplicated() without its subset, comparing whole rows.
duplicatedWholeRows(df, subset) ==
    {i \in 1..Len(df.rows) :
        \E j \in 1..(i - 1) :
            [c \in df.cols |-> df.rows[j][c]] = [c \in df.cols |-> df.rows[i][c]]}

\* Mutant: keep='last', the positions whose key is seen again later.
duplicatedKeepLast(df, subset) ==
    {i \in 1..Len(df.rows) :
        \E j \in (i + 1)..Len(df.rows) :
            KeyOf(df.rows[j], subset) = KeyOf(df.rows[i], subset)}

\* df.duplicated(subset=..., keep='first'): the positions whose key was
\* seen at an earlier position (NaN keys compare equal).
duplicated(df, subset) ==
    {i \in 1..Len(df.rows) :
        \E j \in 1..(i - 1) : KeyOf(df.rows[j], subset) = KeyOf(df.rows[i], subset)}

\* series.isin(set(reference[col])): NaN is a member when the set holds NaN.
isin(cell, df, col) == \E r \in RangeOf(df.rows) : r[col] = cell

\* Series.apply(f) on an empty Series calls f not once and returns an empty
\* Series of the column's dtype.  ~ of it raises TypeError for float64; for
\* object and int64 it is a non-boolean key, so df[key] selects no column.
EmptyApply(df, col) ==
    IF df.rows # <<>> THEN "bool"
    ELSE IF df.dtype[col] = "float64" THEN "raise"
    ELSE "nonbool"

\* df[empty non-boolean key]: the frame with no column and no row.
NoColumns(df) == [df EXCEPT !.cols = {}, !.rows = <<>>]

\* ------------------------------------------------------------------ DataLoader

TextCols == {"customer_id", "first_name", "last_name", "email", "phone",
             "product_name", "category", "order_date", "order_status"}

Columns ==
    [customers |-> {"customer_id", "first_name", "last_name", "email", "phone"},
     products |-> {"product_id", "product_name", "category", "price",
                   "stock_quantity"},
     orders |-> {"order_id", "customer_id", "order_date", "order_status",
                 "total_amount"},
     order_items |-> {"order_item_id", "order_id", "product_id", "quantity",
                      "price_per_unit"}]

\* The dtype read_csv infers: object for a column of an empty file and for
\* text, float64 when a number is missing or fractional (or all is NaN).
InferDtype(rows, col) ==
    IF rows = <<>> THEN "object"
    ELSE IF \A i \in 1..Len(rows) : isna(rows[i][col]) THEN "float64"
    ELSE IF col \in TextCols THEN "object"
    ELSE IF \E i \in 1..Len(rows) : isna(rows[i][col]) THEN "float64"
    ELSE IF col = "quantity" /\ \E i \in 1..Len(rows) : V(rows[i][col]) % 2 # 0
         THEN "float64"
    ELSE "int64"

\* pd.read_csv: a RangeIndex 0..n-1 over the rows of the file.
read_csv(file) ==
    [present |-> TRUE,
     cols |-> file.cols,
     dtype |-> [c \in file.cols |-> InferDtype(file.rows, c)],
     rows |-> [i \in 1..Len(file.rows) |-> [idx |-> i - 1] @@ file.rows[i]]]

\* load_csv: None when the file is not there or read_csv raises.
load_csv(file) == IF file.status = "ok" THEN read_csv(file) ELSE None

validate_not_empty(df) == df.present /\ df.rows # <<>>

required_columns ==
    [customers |-> {"customer_id", "first_name", "last_name", "email"},
     products |-> {"product_id", "product_name", "category", "price"},
     orders |-> {"order_id", "customer_id", "order_date", "total_amount"},
     order_items |-> {"order_item_id", "order_id", "product_id", "quantity"}]

validate_required_columns(df, required) ==
    df.present /\ required \subseteq df.cols

LogEntry(level, source, message) ==
    [level |-> level, source |-> source, message |-> message]

\* The log lines one dataset adds while it is loaded.
LoadLog(name, file) ==
    LET df == load_csv(file)
    IN IF ~df.present THEN <<LogEntry("ERROR", name, "load")>>
       ELSE <<LogEntry("INFO", name, "loaded"),
              LogEntry(IF validate_not_empty(df) THEN "INFO" ELSE "ERROR",
                       name, "empty"),
              LogEntry(IF validate_required_columns(df, required_columns[name])
                       THEN "INFO" ELSE "ERROR", name, "columns")>>

\* datasets[dataset_name] = df, whatever the two validations returned.
load_all_datasets(fs) == [n \in DatasetNames |-> load_csv(fs[n])]

load_all_log(fs) ==
    LoadLog("customers", fs["customers"]) \o LoadLog("products", fs["products"])
    \o LoadLog("orders", fs["orders"]) \o LoadLog("order_items", fs["order_items"])

\* ------------------------------------------------------------------ DataCleaner

CleaningEntry(dataset, action, count) ==
    [dataset |-> dataset, action |-> action, rows_affected |-> count]

\* What a cleaner leaves behind: the frame it returns (None when an
\* exception left it), the entries it appended to self.cleaning_log and to
\* self.validator.validation_errors before it returned or raised.
Returned(df, log, errors) ==
    [raised |-> FALSE, df |-> df, log |-> log, errors |-> errors]

Raised(log, errors) ==
    [raised |-> TRUE, df |-> None, log |-> log, errors |-> errors]

\* Mutant: a price is accepted as soon as it is present.
ValidatesPriceByPresence(column, cell) ==
    CASE column = "email" -> validate_email(cell)
      [] column = "phone" -> validate_phone(cell)
      [] column \in {"price", "price_per_unit"} -> ~isna(cell)
      [] column = "quantity" -> validate_quantity(cell)
      [] column = "order_date" -> validate_date(cell)
      [] column = "order_status" -> validate_order_status(cell)

\* The validator the cleaners apply to each column.
Validates(column, cell) ==
    CASE column = "email" -> validate_email(cell)
      [] column = "phone" -> validate_phone(cell)
      [] column \in {"price", "price_per_unit"} -> validate_price(cell)
      [] column = "quantity" -> validate_quantity(cell)
      [] column = "order_date" -> validate_date(cell)
      [] column = "order_status" -> validate_order_status(cell)

\* Mutant: a missing value is not reported, only a present one that fails.
InvalidFormatOfPresent(df, column) ==
    LET F[i \in 0..Len(df.rows)] ==
            IF i = 0 THEN <<>>
            ELSE IF isna(df.rows[i][column]) \/ Validates(column, df.rows[i][column])
                 THEN F[i - 1]
            ELSE Append(F[i - 1],
                        ErrorEntry("customers", df.rows[i].idx, column,
                                   "invalid_format", df.rows[i][column]))
    IN F[Len(df.rows)]

\* The rows of df whose value in column fails its validator, in order, each
\* logged as 'invalid_format' with its index label.
InvalidFormat(df, column) ==
    LET F[i \in 0..Len(df.rows)] ==
            IF i = 0 THEN <<>>
            ELSE IF Validates(column, df.rows[i][column]) THEN F[i - 1]
            ELSE Append(F[i - 1],
                        ErrorEntry("customers", df.rows[i].idx, column,
                                   "invalid_format", df.rows[i][column]))
    IN F[Len(df.rows)]

\* select_dtypes(include=['object']) and .str.strip() on each such column.
StripObjectColumns(df) ==
    LET string_cols == {c \in df.cols : df.dtype[c] = "object"}
    IN [df EXCEPT !.rows =
            [i \in 1..Len(df.rows) |->
                [c \in DOMAIN df.rows[i] |->
                    IF c \in string_cols THEN str_strip(df.rows[i][c])
                    ELSE df.rows[i][c]]]]

\* Mutant: email, which the loader requires, counted among the critical fields.
critical_fields_with_email == {"customer_id", "first_name", "last_name", "email"}

critical_fields == {"customer_id", "first_name", "last_name"}

clean_customers(df) ==
    LET duplicates == duplicated(df, df.cols)
        d1 == Drop(df, duplicates)
        log1 == <<CleaningEntry("customers", "duplicates_removed",
                                Cardinality(duplicates))>>
    IN IF "customer_id" \notin d1.cols THEN Raised(log1, <<>>)
       ELSE
       LET id_duplicates == duplicated(d1, {"customer_id"})
           d2 == Drop(d1, id_duplicates)
           log2 == Append(log1, CleaningEntry("customers", "duplicate_ids_removed",
                                              Cardinality(id_duplicates)))
       IN IF ~(critical_fields \subseteq d2.cols) THEN Raised(log2, <<>>)
          ELSE
          LET missing_critical ==
                  {i \in 1..Len(d2.rows) :
                      \E c \in critical_fields : isna(d2.rows[i][c])}
              d3 == Drop(d2, missing_critical)
              log3 == Append(log2, CleaningEntry("customers",
                                                 "missing_critical_removed",
                                                 Cardinality(missing_critical)))
              has_email == "email" \in d3.cols
              has_phone == "phone" \in d3.cols
              email_errors ==
                  IF has_email THEN InvalidFormat(d3, "email")
                  ELSE <<>>
              phone_errors ==
                  IF has_phone THEN InvalidFormat(d3, "phone")
                  ELSE <<>>
          IN IF has_email /\ EmptyApply(d3, "email") = "raise"
                THEN Raised(log3, <<>>)
             ELSE IF has_phone /\ EmptyApply(d3, "phone") = "raise"
                THEN Raised(log3, email_errors)
             ELSE Returned(StripObjectColumns(d3), log3,
                           email_errors \o phone_errors)

\* invalid = ~df[column].apply(validator); df = df[~invalid]; invalid.sum().
\* KeyError when the column is not there; on an empty frame see EmptyApply.
RemoveInvalid(df, column) ==
    IF column \notin df.cols THEN [raised |-> TRUE, df |-> None, count |-> 0]
    ELSE IF EmptyApply(df, column) = "raise"
        THEN [raised |-> TRUE, df |-> None, count |-> 0]
    ELSE IF EmptyApply(df, column) = "nonbool"
        THEN [raised |-> FALSE, df |-> NoColumns(df), count |-> 0]
    ELSE LET invalid == {i \in 1..Len(df.rows) : ~Validates(column, df.rows[i][column])}
         IN [raised |-> FALSE, df |-> Drop(df, invalid),
             count |-> Cardinality(invalid)]

\* Mutant: the rows of negative stock are dropped, not repaired.
DropNegativeStock(df) ==
    Drop(df, {i \in 1..Len(df.rows) :
                /\ ~isna(df.rows[i]["stock_quantity"])
                /\ V(df.rows[i]["stock_quantity"]) < 0})

\* Mutant: the negative stock is blanked, not set to 0.
BlankNegativeStock(df) ==
    [df EXCEPT !.rows =
        [i \in 1..Len(df.rows) |->
            IF ~isna(df.rows[i]["stock_quantity"]) /\ V(df.rows[i]["stock_quantity"]) < 0
            THEN [df.rows[i] EXCEPT !["stock_quantity"] = NaN]
            ELSE df.rows[i]]]

\* df.loc[df['stock_quantity'] < 0, 'stock_quantity'] = 0
FixNegativeStock(df) ==
    [df EXCEPT !.rows =
        [i \in 1..Len(df.rows) |->
            IF ~isna(df.rows[i]["stock_quantity"]) /\ V(df.rows[i]["stock_quantity"]) < 0
            THEN [df.rows[i] EXCEPT !["stock_quantity"] = <<0>>]
            ELSE df.rows[i]]]

clean_products(df) ==
    IF "product_name" \notin df.cols THEN Raised(<<>>, <<>>)
    ELSE
    LET missing_name == {i \in 1..Len(df.rows) : isna(df.rows[i]["product_name"])}
        d1 == Drop(df, missing_name)
        log1 == <<CleaningEntry("products", "missing_product_name",
                                Cardinality(missing_name))>>
        s2 == RemoveInvalid(d1, "price")
    IN IF s2.raised THEN Raised(log1, <<>>)
       ELSE
       LET d2 == s2.df
           log2 == Append(log1, CleaningEntry("products", "invalid_price_removed",
                                              s2.count))
           has_stock == "stock_quantity" \in d2.cols
           negative_stock ==
               IF has_stock
               THEN {i \in 1..Len(d2.rows) :
                        /\ ~isna(d2.rows[i]["stock_quantity"])
                        /\ V(d2.rows[i]["stock_quantity"]) < 0}
               ELSE {}
           d3 == IF has_stock THEN FixNegativeStock(d2) ELSE d2
           log3 == IF has_stock
                   THEN Append(log2, CleaningEntry("products", "negative_stock_fixed",
                                                   Cardinality(negative_stock)))
                   ELSE log2
       IN IF "product_id" \notin d3.cols THEN Raised(log3, <<>>)
          ELSE
          LET id_duplicates == duplicated(d3, {"product_id"})
          IN Returned(Drop(d3, id_duplicates),
                      Append(log3, CleaningEntry("products", "duplicate_ids_removed",
                                                 Cardinality(id_duplicates))),
                      <<>>)

clean_orders(df, customers_df) ==
    IF "order_date" \notin df.cols THEN Raised(<<>>, <<>>)
    ELSE
    LET missing_date == {i \in 1..Len(df.rows) : isna(df.rows[i]["order_date"])}
        d1 == Drop(df, missing_date)
        log1 == <<CleaningEntry("orders", "missing_order_date",
                                Cardinality(missing_date))>>
        s2 == RemoveInvalid(d1, "order_date")
    IN IF s2.raised THEN Raised(log1, <<>>)
       ELSE
       LET log2 == Append(log1, CleaningEntry("orders", "future_dates_removed",
                                              s2.count))
           s3 == RemoveInvalid(s2.df, "order_status")
       IN IF s3.raised THEN Raised(log2, <<>>)
          ELSE
          LET d3 == s3.df
              log3 == Append(log2, CleaningEntry("orders", "invalid_status_removed",
                                                 s3.count))
          IN IF "customer_id" \notin customers_df.cols \/ "customer_id" \notin d3.cols
                THEN Raised(log3, <<>>)
             ELSE
             LET orphaned == {i \in 1..Len(d3.rows) :
                                ~isin(d3.rows[i]["customer_id"], customers_df,
                                      "customer_id")}
                 d4 == Drop(d3, orphaned)
                 log4 == Append(log3, CleaningEntry("orders", "orphaned_customer_id",
                                                    Cardinality(orphaned)))
             IN IF "order_id" \notin d4.cols THEN Raised(log4, <<>>)
                ELSE
                LET id_duplicates == duplicated(d4, {"order_id"})
                IN Returned(Drop(d4, id_duplicates),
                            Append(log4, CleaningEntry("orders",
                                                       "duplicate_ids_removed",
                                                       Cardinality(id_duplicates))),
                            <<>>)

clean_order_items(df, orders_df, products_df) ==
    LET s1 == RemoveInvalid(df, "quantity")
    IN IF s1.raised THEN Raised(<<>>, <<>>)
       ELSE
       LET log1 == <<CleaningEntry("order_items", "invalid_quantity_removed",
                                   s1.count)>>
           s2 == RemoveInvalid(s1.df, "price_per_unit")
       IN IF s2.raised THEN Raised(log1, <<>>)
          ELSE
          LET d2 == s2.df
              log2 == Append(log1, CleaningEntry("order_items",
                                                 "invalid_price_removed", s2.count))
          IN IF "order_id" \notin orders_df.cols \/ "order_id" \notin d2.cols
                THEN Raised(log2, <<>>)
             ELSE
             LET orphaned_orders ==
                     {i \in 1..Len(d2.rows) :
                         ~isin(d2.rows[i]["order_id"], orders_df, "order_id")}
                 d3 == Drop(d2, orphaned_orders)
                 log3 == Append(log2, CleaningEntry("order_items",
                                                    "orphaned_order_id",
                                                    Cardinality(orphaned_orders)))
             IN IF "product_id" \notin products_df.cols
                   \/ "product_id" \notin d3.cols
                   THEN Raised(log3, <<>>)
                ELSE
                LET orphaned_products ==
                        {i \in 1..Len(d3.rows) :
                            ~isin(d3.rows[i]["product_id"], products_df,
                                  "product_id")}
                IN Returned(Drop(d3, orphaned_products),
                            Append(log3, CleaningEntry("order_items",
                                                       "orphaned_product_id",
                                                       Cardinality(orphaned_products))),
                            <<>>)

\* ------------------------------------------------------------------ CleaningPipeline

\* df.to_csv(filepath, index=False): the columns and the rows, no index.
to_csv(df) ==
    [cols |-> df.cols,
     rows |-> [i \in 1..Len(df.rows) |-> [c \in df.cols |-> df.rows[i][c]]]]

save_cleaned_data(cleaned) ==
    [n \in DOMAIN cleaned |-> to_csv(cleaned[n])]

\* raw_count, clean_count and removed of each dataset.
quality_summary(raw, cleaned) ==
    [n \in DOMAIN raw |->
        [raw_count |-> Len(raw[n].rows),
         clean_count |-> Len(cleaned[n].rows),
         removed |-> Len(raw[n].rows) - Len(cleaned[n].rows)]]

\* Step 1: load_all_datasets.
LoadRawData ==
    /\ pc = "start"
    /\ raw_datasets' = load_all_datasets(files)
    /\ validation_log' = validation_log \o load_all_log(files)
    /\ pc' = "loaded"
    /\ UNCHANGED <<files, cleaned_datasets, cleaning_log, validation_errors,
                   saved, summary, result>>
    /\ UNCHANGED caller

\* if any(df is None ...): return None
Abort ==
    /\ pc = "loaded"
    /\ \E n \in DatasetNames : ~raw_datasets[n].present
    /\ pc' = "aborted"
    /\ result' = "None"
    /\ UNCHANGED <<files, raw_datasets, cleaned_datasets, cleaning_log,
                   validation_errors, validation_log, saved, summary>>
    /\ UNCHANGED caller

\* Mutant: only the entries that affected a row reach the cleaning log.
AffectedSome(entry) == entry.rows_affected > 0

CleanerStepLoggingRemovalsOnly(name, r, next) ==
    /\ cleaning_log' = cleaning_log \o SelectSeq(r.log, AffectedSome)
    /\ validation_errors' = validation_errors \o r.errors
    /\ IF r.raised
       THEN /\ pc' = "raised"
            /\ result' = "exception"
            /\ UNCHANGED cleaned_datasets
       ELSE /\ pc' = next
            /\ cleaned_datasets' = cleaned_datasets @@ (name :> r.df)
            /\ UNCHANGED result
    /\ UNCHANGED <<files, raw_datasets, validation_log, saved, summary>>
    /\ UNCHANGED caller

\* One cleaner call of run(): its log and error entries are appended, its
\* frame is stored under name, or its exception leaves run().
CleanerStep(name, r, next) ==
    /\ cleaning_log' = cleaning_log \o r.log
    /\ validation_errors' = validation_errors \o r.errors
    /\ IF r.raised
       THEN /\ pc' = "raised"
            /\ result' = "exception"
            /\ UNCHANGED cleaned_datasets
       ELSE /\ pc' = next
            /\ cleaned_datasets' = cleaned_datasets @@ (name :> r.df)
            /\ UNCHANGED result
    /\ UNCHANGED <<files, raw_datasets, validation_log, saved, summary>>
    /\ UNCHANGED caller

CleanCustomers ==
    /\ pc = "loaded"
    /\ \A n \in DatasetNames : raw_datasets[n].present
    /\ CleanerStep("customers", clean_customers(raw_datasets["customers"]),
                   "cleaned_customers")

\* Mutant: clean_products works on the frame it is given, without df.copy():
\* the repair of the stock reaches raw_datasets['products'].
CleanProductsInPlace ==
    /\ pc = "cleaned_customers"
    /\ LET r == clean_products(raw_datasets["products"])
       IN /\ cleaning_log' = cleaning_log \o r.log
          /\ validation_errors' = validation_errors \o r.errors
          /\ raw_datasets' =
                IF "stock_quantity" \in raw_datasets["products"].cols
                THEN [raw_datasets EXCEPT
                        !["products"] = FixNegativeStock(raw_datasets["products"])]
                ELSE raw_datasets
          /\ IF r.raised
             THEN /\ pc' = "raised"
                  /\ result' = "exception"
                  /\ UNCHANGED cleaned_datasets
             ELSE /\ pc' = "cleaned_products"
                  /\ cleaned_datasets' = cleaned_datasets @@ ("products" :> r.df)
                  /\ UNCHANGED result
    /\ UNCHANGED <<files, validation_log, saved, summary>>
    /\ UNCHANGED caller

CleanProducts ==
    /\ pc = "cleaned_customers"
    /\ CleanerStep("products", clean_products(raw_datasets["products"]),
                   "cleaned_products")

\* Mutant: the orders are checked against the raw customers.
CleanOrdersAgainstRaw ==
    /\ pc = "cleaned_products"
    /\ CleanerStep("orders",
                   clean_orders(raw_datasets["orders"], raw_datasets["customers"]),
                   "cleaned_orders")

CleanOrders ==
    /\ pc = "cleaned_products"
    /\ CleanerStep("orders",
                   clean_orders(raw_datasets["orders"],
                                cleaned_datasets["customers"]),
                   "cleaned_orders")

CleanOrderItems ==
    /\ pc = "cleaned_orders"
    /\ CleanerStep("order_items",
                   clean_order_items(raw_datasets["order_items"],
                                     cleaned_datasets["orders"],
                                     cleaned_datasets["products"]),
                   "cleaned_order_items")

\* Mutant: the cleaned data is saved before the order items are cleaned.
SaveBeforeOrderItems ==
    /\ pc = "cleaned_orders"
    /\ saved' = save_cleaned_data(cleaned_datasets) @@ saved
    /\ pc' = "cleaned_orders"
    /\ UNCHANGED <<files, raw_datasets, cleaned_datasets, cleaning_log,
                   validation_errors, validation_log, summary, result>>
    /\ UNCHANGED caller

\* Step 3: save_cleaned_data.
SaveCleanedData ==
    /\ pc = "cleaned_order_items"
    /\ saved' = save_cleaned_data(cleaned_datasets) @@ saved
    /\ pc' = "saved"
    /\ UNCHANGED <<files, raw_datasets, cleaned_datasets, cleaning_log,
                   validation_errors, validation_log, summary, result>>
    /\ UNCHANGED caller

\* Step 4: generate_reports, then return cleaned_datasets.
GenerateReports ==
    /\ pc = "saved"
    /\ summary' = quality_summary(raw_datasets, cleaned_datasets)
    /\ saved' = (IF validation_errors # <<>>
                 THEN ("validation_errors" :> validation_errors)
                 ELSE <<>>)
                @@ ("cleaning_summary" :> cleaning_log) @@ saved
    /\ pc' = "done"
    /\ result' = "cleaned_datasets"
    /\ UNCHANGED <<files, raw_datasets, cleaned_datasets, cleaning_log,
                   validation_errors, validation_log>>
    /\ UNCHANGED caller

\* The caller invokes run() again on the same pipeline object: raw_datasets
\* and cleaned_datasets are locals of run(), the cleaner, its validator, the
\* loader and the files of clean_data_dir are those of the object.
RunAgain ==
    /\ pc \in {"aborted", "raised", "done"}
    /\ run_no < calls
    /\ run_no' = run_no + 1
    /\ log_base' = Len(cleaning_log)
    /\ errors_base' = Len(validation_errors)
    /\ pc' = "start"
    /\ raw_datasets' = <<>>
    /\ cleaned_datasets' = <<>>
    /\ summary' = <<>>
    /\ result' = "running"
    /\ UNCHANGED <<files, cleaning_log, validation_errors, validation_log,
                   saved, calls>>

\* ------------------------------------------------------------------ inputs

\* The longest table of the family of inputs under study.
MaxRows == 2

\* The most calls of run() a caller makes on one pipeline object.
MaxCalls == 2

Lengths == 0..MaxRows

IdA == <<<<"a">>>>
IdSpaceA == <<<<" ", "a">>>>
IdB == <<<<"b">>>>
First == <<<<"f">>>>
Last == <<<<"l">>>>
GoodEmail == <<<<"a", "@", "b", ".", "c", "o">>>>
BadEmail == <<<<"b", "a", "d", "-", "e", "m", "a", "i", "l">>>>
GoodPhone == <<<<"9", "8", "7", "6", "5", "4", "3", "2", "1", "0">>>>
BadPhone == <<<<"1", "2", "3", "4", "5">>>>

CustomerRow(id, first, last, email, phone) ==
    [customer_id |-> id, first_name |-> first, last_name |-> last,
     email |-> email, phone |-> phone]

ProductRow(id, name, price, stock) ==
    [product_id |-> id, product_name |-> name, category |-> <<"c">>,
     price |-> price, stock_quantity |-> stock]

OrderRow(id, customer, date, status) ==
    [order_id |-> id, customer_id |-> customer, order_date |-> date,
     order_status |-> status, total_amount |-> <<10>>]

ItemRow(order, product, quantity, price) ==
    [order_item_id |-> <<1>>, order_id |-> order, product_id |-> product,
     quantity |-> quantity, price_per_unit |-> price]

\* Customers: the removal rules (ids, names), then the advisory columns.
CustomerRuleRows ==
    {CustomerRow(id, first, last, GoodEmail, GoodPhone) :
        id \in {NaN, IdA, IdSpaceA}, first \in {NaN, First},
        last \in {NaN, Last}}

CustomerAdvisoryRows ==
    {CustomerRow(id, First, Last, email, phone) :
        id \in {IdA, IdB}, email \in {NaN, GoodEmail, BadEmail},
        phone \in {GoodPhone, BadPhone}}

ProductRows ==
    {ProductRow(id, name, price, <<4>>) :
        id \in {NaN, <<1>>, <<2>>}, name \in {NaN, <<"p">>},
        price \in {<<-5>>, <<10>>}}

ProductValueRows ==
    {ProductRow(<<1>>, <<"p">>, price, stock) :
        price \in {NaN, <<0>>, <<10>>}, stock \in {NaN, <<-3>>, <<0>>}}

OrderRuleRows ==
    {OrderRow(id, IdA, date, <<"Pending">>) :
        id \in {<<5>>, <<6>>}, date \in {NaN, <<-1>>, <<Now>>, <<Now + 1>>}}
    \cup
    {OrderRow(id, IdA, <<1>>, status) :
        id \in {<<5>>, <<6>>}, status \in {NaN, <<"pending">>}}

OrderKeyRows ==
    {OrderRow(id, customer, <<1>>, <<"Completed">>) :
        id \in {NaN, <<5>>}, customer \in {NaN, IdA, IdSpaceA, IdB}}

OrderCustomerRows ==
    {r \in OrderKeyRows : r["order_id"] = <<5>>}

ItemRuleRows ==
    {ItemRow(<<5>>, <<1>>, quantity, <<10>>) :
        quantity \in {NaN, <<-2>>, <<0>>, <<1>>, <<2>>, <<5>>}}
    \cup
    {ItemRow(<<5>>, <<1>>, <<2>>, price) : price \in {NaN, <<-5>>, <<0>>}}

ItemKeyRows ==
    {ItemRow(order, product, <<2>>, <<10>>) :
        order \in {NaN, <<5>>, <<6>>}, product \in {NaN, <<1>>, <<2>>}}

ItemProductRows ==
    {r \in ItemKeyRows : r["order_id"] = <<5>>}

ItemOrderRows ==
    {r \in ItemKeyRows : r["product_id"] = <<1>>}

BasicRows ==
    [customers |-> <<CustomerRow(IdA, First, Last, GoodEmail, GoodPhone)>>,
     products |-> <<ProductRow(<<1>>, <<"p">>, <<10>>, <<4>>)>>,
     orders |-> <<OrderRow(<<5>>, IdA, <<1>>, <<"Pending">>)>>,
     order_items |-> <<ItemRow(<<5>>, <<1>>, <<2>>, <<10>>)>>]

\* Parent tables for the foreign-key inputs.
ParentCustomers ==
    {BasicRows["customers"],
     <<CustomerRow(IdSpaceA, First, Last, GoodEmail, GoodPhone)>>,
     <<CustomerRow(IdA, NaN, Last, GoodEmail, GoodPhone)>>,
     <<CustomerRow(IdA, First, Last, BadEmail, BadPhone),
       CustomerRow(IdB, First, Last, GoodEmail, GoodPhone)>>,
     <<CustomerRow(NaN, First, Last, GoodEmail, GoodPhone)>>}

ParentOrders ==
    {BasicRows["orders"],
     <<OrderRow(NaN, IdA, <<1>>, <<"Pending">>)>>,
     <<OrderRow(<<5>>, IdB, <<1>>, <<"Pending">>)>>,
     <<OrderRow(<<5>>, IdA, <<1>>, <<"Pending">>),
       OrderRow(<<6>>, IdA, <<1>>, <<"Cancelled">>)>>}

ParentProducts ==
    {BasicRows["products"],
     <<ProductRow(NaN, <<"p">>, <<10>>, <<4>>)>>,
     <<ProductRow(<<1>>, <<"p">>, <<-5>>, <<4>>),
       ProductRow(<<2>>, <<"p">>, <<10>>, <<4>>)>>}

\* The scenarios of the test data: a customer with a bad email and phone, a
\* product with a negative price, one with negative stock, a repeated
\* product id, an order of an unknown customer, a repeated order id.
ScenarioRows ==
    [customers |-> <<CustomerRow(IdA, First, Last, BadEmail, BadPhone),
                     CustomerRow(IdB, NaN, Last, GoodEmail, GoodPhone)>>,
     products |-> <<ProductRow(<<1>>, <<"p">>, <<-5>>, <<4>>),
                    ProductRow(<<2>>, <<"p">>, <<10>>, <<-3>>),
                    ProductRow(<<2>>, <<"q">>, <<10>>, <<4>>)>>,
     orders |-> <<OrderRow(<<5>>, IdA, <<1>>, <<"Pending">>),
                  OrderRow(<<5>>, IdA, <<Now>>, <<"Completed">>),
                  OrderRow(<<6>>, IdB, <<1>>, <<"Pending">>),
                  OrderRow(<<7>>, IdA, <<1>>, <<"Completed">>)>>,
     order_items |-> <<ItemRow(<<5>>, <<2>>, <<2>>, <<10>>),
                       ItemRow(<<7>>, <<2>>, <<0>>, <<10>>),
                       ItemRow(<<6>>, <<2>>, <<4>>, <<10>>),
                       ItemRow(<<7>>, <<1>>, <<4>>, <<10>>)>>]

CsvFile(name, cols, rows) ==
    [status |-> "ok", cols |-> cols,
     rows |-> [i \in 1..Len(rows) |-> [c \in cols |-> rows[i][c]]]]

NoFile(status) == [status |-> status, cols |-> {}, rows |-> <<>>]

FullFile(name, rows) == CsvFile(name, Columns[name], rows)

\* The files of one dataset in the study of loading: not there, unreadable,
\* header only, complete, or complete but for one column.
LoadCases(name) ==
    {NoFile("missing"), NoFile("unreadable"), FullFile(name, <<>>),
     FullFile(name, BasicRows[name])}
    \cup {CsvFile(name, Columns[name] \ {c}, BasicRows[name]) : c \in Columns[name]}

FilesOf(customers, products, orders, order_items) ==
    [customers |-> FullFile("customers", customers),
     products |-> FullFile("products", products),
     orders |-> FullFile("orders", orders),
     order_items |-> FullFile("order_items", order_items)]

\* The families of raw files under study: one dataset varies over every
\* table of its rows up to MaxRows while the others hold their basic row;
\* the foreign-key families vary the parents with the child; the last
\* family varies what load_csv finds.
CustomerInputs(c) ==
    files = FilesOf(c, BasicRows["products"], BasicRows["orders"],
                    BasicRows["order_items"])

ProductInputs(p) ==
    files = FilesOf(BasicRows["customers"], p, BasicRows["orders"],
                    BasicRows["order_items"])

OrderInputs(c, o) ==
    files = FilesOf(c, BasicRows["products"], o, BasicRows["order_items"])

ItemInputs(p, o, i) ==
    files = FilesOf(BasicRows["customers"], p, o, i)

\* The files on which the caller runs the pipeline more than once: the
\* scenarios, the scenarios with one file gone, with a column of the orders
\* gone, and with each table of ParentCustomers.
RerunFiles ==
    LET scenario == FilesOf(ScenarioRows["customers"], ScenarioRows["products"],
                            ScenarioRows["orders"], ScenarioRows["order_items"])
    IN {scenario,
        [scenario EXCEPT !["products"] = NoFile("missing")],
        [scenario EXCEPT !["orders"] =
            CsvFile("orders", Columns["orders"] \ {"order_status"},
                    ScenarioRows["orders"])]}
       \cup {[scenario EXCEPT !["customers"] = FullFile("customers", c)] :
                c \in ParentCustomers}

RawFiles ==
    \/ \E k \in Lengths : \E c \in [1..k -> CustomerRuleRows] : CustomerInputs(c)
    \/ \E k \in Lengths : \E c \in [1..k -> CustomerAdvisoryRows] : CustomerInputs(c)
    \/ \E k \in Lengths : \E p \in [1..k -> ProductRows] : ProductInputs(p)
    \/ \E k \in Lengths : \E p \in [1..k -> ProductValueRows] : ProductInputs(p)
    \/ \E k \in Lengths : \E o \in [1..k -> OrderRuleRows] :
            OrderInputs(BasicRows["customers"], o)
    \/ \E k \in Lengths : \E o \in [1..k -> OrderKeyRows] :
            OrderInputs(BasicRows["customers"], o)
    \/ \E k \in Lengths : \E o \in [1..k -> OrderCustomerRows] :
            \E c \in ParentCustomers : OrderInputs(c, o)
    \/ \E k \in Lengths : \E i \in [1..k -> ItemRuleRows] :
            ItemInputs(BasicRows["products"], BasicRows["orders"], i)
    \/ \E k \in Lengths : \E i \in [1..k -> ItemKeyRows] :
            ItemInputs(BasicRows["products"], BasicRows["orders"], i)
    \/ \E k \in Lengths : \E i \in [1..k -> ItemProductRows] :
            \E p \in ParentProducts : ItemInputs(p, BasicRows["orders"], i)
    \/ \E k \in Lengths : \E i \in [1..k -> ItemOrderRows] :
            \E o \in ParentOrders : ItemInputs(BasicRows["products"], o, i)
    \/ files = FilesOf(ScenarioRows["customers"], ScenarioRows["products"],
                       ScenarioRows["orders"], ScenarioRows["order_items"])
    \/ files \in [customers : LoadCases("customers"),
                  products : LoadCases("products"),
                  orders : LoadCases("orders"),
                  order_items : LoadCases("order_items")]

Init ==
    /\ \/ RawFiles /\ calls = 1
       \/ files \in RerunFiles /\ calls \in 2..MaxCalls
    /\ run_no = 1
    /\ log_base = 0
    /\ errors_base = 0
    /\ pc = "start"
    /\ raw_datasets = <<>>
    /\ cleaned_datasets = <<>>
    /\ cleaning_log = <<>>
    /\ validation_errors = <<>>
    /\ validation_log = <<>>
    /\ saved = <<>>
    /\ summary = <<>>
    /\ result = "running"

Next ==
    \/ LoadRawData
    \/ Abort
    \/ CleanCustomers
    \/ CleanProducts
    \/ CleanOrders
    \/ CleanOrderItems
    \/ SaveCleanedData
    \/ GenerateReports
    \/ RunAgain

\* ------------------------------------------------------------------ properties

\* The entries this call of run() has appended to the cleaning log and to
\* the validation errors.
RunLog == SubSeq(cleaning_log, log_base + 1, Len(cleaning_log))

RunErrors == SubSeq(validation_errors, errors_base + 1, Len(validation_errors))

Cleaned(name) == name \in DOMAIN cleaned_datasets

Completed == pc = "done"

\* The rows_affected of the entries of log for dataset whose action is in actions.
RowsAffected(log, dataset, actions) ==
    LET F[i \in 0..Len(log)] ==
            IF i = 0 THEN 0
            ELSE IF log[i].dataset = dataset /\ log[i].action \in actions
                 THEN F[i - 1] + log[i].rows_affected
                 ELSE F[i - 1]
    IN F[Len(log)]

IdsOf(df, col) == {r[col] : r \in RangeOf(df.rows)}

\* The raw orders that reach the customer check: date and status pass.
ReachesCustomerCheck(o) ==
    /\ ~isna(o["order_date"])
    /\ validate_date(o["order_date"])
    /\ validate_order_status(o["order_status"])

C2_ItemsReferenceSurvivingParents ==
    Completed =>
        /\ check_foreign_key(cleaned_datasets["order_items"], "order_id",
                             cleaned_datasets["orders"], "order_id") = {}
        /\ check_foreign_key(cleaned_datasets["order_items"], "product_id",
                             cleaned_datasets["products"], "product_id") = {}

\* C3: the table clean_customers returns holds no customer_id twice.
C3_UniqueCustomerIds ==
    Cleaned("customers") =>
        LET rows == cleaned_datasets["customers"].rows
        IN \A i, j \in 1..Len(rows) :
            i # j => rows[i]["customer_id"] # rows[j]["customer_id"]

UniqueIn(df, col) ==
    \A i, j \in 1..Len(df.rows) : i # j => df.rows[i][col] # df.rows[j][col]

\* C4: the tables clean_products and clean_orders return hold no product_id,
\* respectively no order_id, twice.
C4_UniqueProductAndOrderIds ==
    /\ Cleaned("products") => UniqueIn(cleaned_datasets["products"], "product_id")
    /\ Cleaned("orders") => UniqueIn(cleaned_datasets["orders"], "order_id")

\* Both cleaners met a repeated id and returned rows.
C4_Witness ==
    /\ Cleaned("products") /\ Cleaned("orders")
    /\ RowsAffected(RunLog, "products", {"duplicate_ids_removed"}) >= 1
    /\ RowsAffected(RunLog, "orders", {"duplicate_ids_removed"}) >= 1
    /\ cleaned_datasets["products"].rows # <<>>
    /\ cleaned_datasets["orders"].rows # <<>>

RemovalActions ==
    {"duplicates_removed", "duplicate_ids_removed", "missing_critical_removed",
     "missing_product_name", "invalid_price_removed", "missing_order_date",
     "future_dates_removed", "invalid_status_removed", "orphaned_customer_id",
     "invalid_quantity_removed", "orphaned_order_id", "orphaned_product_id"}

\* C5: after a run, for each dataset the raw row count is the cleaned row
\* count plus the rows_affected of its removal entries (every action but
\* 'negative_stock_fixed'), by the counts generate_reports reports.
C5_CountConservation ==
    Completed =>
        \A n \in DatasetNames :
            /\ summary[n].raw_count = Len(raw_datasets[n].rows)
            /\ summary[n].clean_count = Len(cleaned_datasets[n].rows)
            /\ summary[n].raw_count =
                 summary[n].clean_count
                 + RowsAffected(RunLog, n, RemovalActions)

\* Rows were removed from every dataset and a stock was repaired.
C5_Witness ==
    /\ Completed
    /\ \A n \in DatasetNames : summary[n].removed >= 1
    /\ RowsAffected(RunLog, "products", {"negative_stock_fixed"}) >= 1

\* A second application of a cleaner returned again, gave back its input
\* and affected no row.
SameAgain(r, df) ==
    /\ ~r.raised
    /\ r.df = df
    /\ \A i \in 1..Len(r.log) : r.log[i].rows_affected = 0

\* C6: with the time and the cleaned parents held fixed, each of the four
\* cleaners applied to its own output returns the identical table, and every
\* log entry of that second application has rows_affected = 0.
C6_Idempotent ==
    /\ Cleaned("customers") =>
        SameAgain(clean_customers(cleaned_datasets["customers"]),
                  cleaned_datasets["customers"])
    /\ Cleaned("products") =>
        SameAgain(clean_products(cleaned_datasets["products"]),
                  cleaned_datasets["products"])
    /\ Cleaned("orders") =>
        SameAgain(clean_orders(cleaned_datasets["orders"],
                               cleaned_datasets["customers"]),
                  cleaned_datasets["orders"])
    /\ Cleaned("order_items") =>
        SameAgain(clean_order_items(cleaned_datasets["order_items"],
                                    cleaned_datasets["orders"],
                                    cleaned_datasets["products"]),
                  cleaned_datasets["order_items"])

Absent == {n \in DatasetNames : ~raw_datasets[n].present}

\* C7: a run ends aborted or done and in no third way: with a dataset
\* absent it aborts with no cleaning-log entry, no validation error, no
\* cleaned table saved or returned and no result; with none absent it runs
\* the four cleaners and returns the four cleaned tables.
C7_AbortedOrDone ==
    /\ pc \in {"start", "loaded", "cleaned_customers", "cleaned_products",
               "cleaned_orders", "cleaned_order_items", "saved",
               "aborted", "done"}
    /\ pc = "aborted" =>
        /\ RunLog = <<>> /\ RunErrors = <<>>
        /\ cleaned_datasets = <<>> /\ saved = <<>>
        /\ result = "None"
    /\ (pc # "start" /\ Absent # {}) => pc \in {"loaded", "aborted"}
    /\ pc = "done" =>
        /\ Absent = {}
        /\ DOMAIN cleaned_datasets = DatasetNames
        /\ result = "cleaned_datasets"

\* The datasets whose file loads but lacks a required column.
LacksRequired ==
    {n \in DatasetNames :
        files[n].status = "ok" /\ ~(required_columns[n] \subseteq files[n].cols)}

\* C8: a dataset that loads but lacks a required column reaches run() as an
\* absent entity, and the run aborts before any cleaner starts.
C8_MissingColumnsAbort ==
    \A n \in LacksRequired :
        /\ pc \in {"start", "loaded", "aborted"}
        /\ pc # "start" => ~raw_datasets[n].present

Rank(dataset) == CHOOSE i \in 1..Len(Names) : Names[i] = dataset

LogMentions(dataset) ==
    \E i \in 1..Len(RunLog) : RunLog[i].dataset = dataset

\* C9: the cleaners finish in the order Customers, Products, Orders,
\* OrderItems; Orders cleaning starts after Customers cleaning and returns
\* what clean_orders makes of the cleaned Customers, OrderItems cleaning
\* starts after Orders and Products cleaning and returns what
\* clean_order_items makes of their outputs; when the run is complete the
\* log of the run is that of each cleaner run once, in that order, grouped by
\* dataset; saving (seen in clean_data_dir while it holds the files of no
\* earlier run) and reporting come after the four cleaners.
C9_CleanersInOrder ==
    /\ Cleaned("products") => Cleaned("customers")
    /\ Cleaned("orders") => Cleaned("products")
    /\ Cleaned("order_items") => Cleaned("orders")
    /\ LogMentions("orders") => Cleaned("customers") /\ Cleaned("products")
    /\ LogMentions("order_items") => Cleaned("orders")
    /\ pc = "cleaned_orders" =>
        cleaned_datasets["orders"] =
            clean_orders(raw_datasets["orders"], cleaned_datasets["customers"]).df
    /\ pc = "cleaned_order_items" =>
        cleaned_datasets["order_items"] =
            clean_order_items(raw_datasets["order_items"],
                              cleaned_datasets["orders"],
                              cleaned_datasets["products"]).df
    /\ \A i, j \in 1..Len(RunLog) :
        i < j => Rank(RunLog[i].dataset) <= Rank(RunLog[j].dataset)
    /\ Completed =>
        RunLog =
            clean_customers(raw_datasets["customers"]).log
            \o clean_products(raw_datasets["products"]).log
            \o clean_orders(raw_datasets["orders"],
                            cleaned_datasets["customers"]).log
            \o clean_order_items(raw_datasets["order_items"],
                                 cleaned_datasets["orders"],
                                 cleaned_datasets["products"]).log
    /\ ((run_no = 1 /\ saved # <<>>) \/ summary # <<>>) =>
        DOMAIN cleaned_datasets = DatasetNames

\* A complete run whose log holds entries of the four datasets, with the
\* orders and the items depending on what the parents kept.
C9_Witness ==
    /\ Completed
    /\ \A n \in DatasetNames : LogMentions(n)
    /\ DOMAIN saved = DatasetNames \cup {"cleaning_summary", "validation_errors"}
    /\ RowsAffected(RunLog, "orders", {"orphaned_customer_id"}) >= 1
    /\ RowsAffected(RunLog, "order_items", {"orphaned_order_id"}) >= 1

\* The (email, phone) values a row is given in a variant.
AdvisoryValues ==
    {<<NaN, BadPhone>>, <<GoodEmail, GoodPhone>>, <<BadEmail, NaN>>}

\* The customers files that differ from file in email and phone values only.
AdvisoryVariants(file) ==
    {[file EXCEPT !.rows =
        [i \in 1..Len(file.rows) |->
            [c \in file.cols |->
                IF c = "email" THEN v[i][1]
                ELSE IF c = "phone" THEN v[i][2]
                ELSE file.rows[i][c]]]] :
     v \in [1..Len(file.rows) -> AdvisoryValues]}

\* clean_customers has just acted on the raw Customers table.
CustomersJustCleaned ==
    \/ pc = "cleaned_customers"
    \/ pc = "raised" /\ ~Cleaned("customers")

IndexOf(df) == [i \in 1..Len(df.rows) |-> df.rows[i].idx]

DuplicateActions == {"duplicates_removed", "duplicate_ids_removed"}

EntriesAbout(errors, idx, column) ==
    {k \in 1..Len(errors) :
        /\ errors[k].dataset = "customers"
        /\ errors[k].row = idx
        /\ errors[k].column = column}

AdvisoryColumns == {"email", "phone"}

\* C11: when clean_customers has returned, the validation errors of the run
\* for 'customers' are all 'invalid_format' entries about the email or the
\* phone of a raw row, carrying the rejected value, and there is exactly one
\* for each (row, column) where the row is in the cleaned table, the column
\* is email or phone and the validator rejects the raw value (a null one
\* too), and none for any other pair: none for a removed row.
C11_OneErrorPerRejectedValue ==
    pc = "cleaned_customers" =>
        LET raw == raw_datasets["customers"]
            kept == {r.idx : r \in RangeOf(cleaned_datasets["customers"].rows)}
        IN /\ \A k \in 1..Len(RunErrors) :
                /\ RunErrors[k].dataset = "customers"
                /\ RunErrors[k].issue = "invalid_format"
                /\ RunErrors[k].column \in AdvisoryColumns \cap raw.cols
                /\ \E r \in RangeOf(raw.rows) :
                    /\ r.idx = RunErrors[k].row
                    /\ RunErrors[k].value = Prefix(str(r[RunErrors[k].column]), 50)
           /\ \A r \in RangeOf(raw.rows) : \A c \in AdvisoryColumns \cap raw.cols :
                Cardinality(EntriesAbout(RunErrors, r.idx, c)) =
                    IF r.idx \in kept /\ ~Validates(c, r[c]) THEN 1 ELSE 0

\* A kept row with a bad email and a bad phone gave two entries, and a row
\* with a bad phone that was removed gave none.
C11_Witness ==
    /\ pc = "cleaned_customers"
    /\ Len(RunErrors) = 2
    /\ \E r \in RangeOf(cleaned_datasets["customers"].rows) :
        /\ r["email"] = BadEmail /\ r["phone"] = BadPhone
        /\ Cardinality(EntriesAbout(RunErrors, r.idx, "email")) = 1
        /\ Cardinality(EntriesAbout(RunErrors, r.idx, "phone")) = 1
    /\ \E r \in RangeOf(raw_datasets["customers"].rows) :
        /\ ~validate_phone(r["phone"])
        /\ \A k \in RangeOf(cleaned_datasets["customers"].rows) : k.idx # r.idx

\* The (dataset, action) of each entry of log, in order.
LogShape(log) == [i \in 1..Len(log) |-> <<log[i].dataset, log[i].action>>]

\* One entry per rule of every entity, in rule order; with_stock tells
\* whether the repair of the negative stock is among them.
RuleShape(with_stock) ==
    <<<<"customers", "duplicates_removed">>,
      <<"customers", "duplicate_ids_removed">>,
      <<"customers", "missing_critical_removed">>,
      <<"products", "missing_product_name">>,
      <<"products", "invalid_price_removed">>>>
    \o (IF with_stock THEN <<<<"products", "negative_stock_fixed">>>> ELSE <<>>)
    \o <<<<"products", "duplicate_ids_removed">>,
         <<"orders", "missing_order_date">>,
         <<"orders", "future_dates_removed">>,
         <<"orders", "invalid_status_removed">>,
         <<"orders", "orphaned_customer_id">>,
         <<"orders", "duplicate_ids_removed">>,
         <<"order_items", "invalid_quantity_removed">>,
         <<"order_items", "invalid_price_removed">>,
         <<"order_items", "orphaned_order_id">>,
         <<"order_items", "orphaned_product_id">>>>

\* C12 as stated: the cleaning log of a completed run is one entry per rule
\* of every entity in rule order, the repair of the negative stock among
\* them, whatever the input.
C12_FixedShape ==
    Completed => LogShape(RunLog) = RuleShape(TRUE)

\* C12 amended: the entries a completed run adds to the cleaning log are one
\* per rule of every entity in rule order, each present even when it
\* affected no row, the 'negative_stock_fixed' entry being there exactly
\* when the raw Products table has a stock_quantity column.
C12_ShapeFixedButForStock ==
    Completed =>
        LogShape(RunLog) =
            RuleShape("stock_quantity" \in raw_datasets["products"].cols)

\* A run completed on Products without a stock_quantity column, and a run
\* completed with entries that affected no row.
C12_Witness ==
    /\ Completed
    /\ "stock_quantity" \notin raw_datasets["products"].cols
    /\ \E i \in 1..Len(RunLog) : RunLog[i].rows_affected = 0
    /\ Len(RunLog) = 15

\* The raw products that pass the name and the price rules.
PassesNameAndPrice(p) ==
    ~isna(p["product_name"]) /\ validate_price(p["price"])

NegativeStock(p) ==
    ~isna(p["stock_quantity"]) /\ V(p["stock_quantity"]) < 0

\* The raw products whose only defect is a negative stock: name and price
\* pass and no earlier row that passes them carries the same product_id.
OnlyNegativeStock(raw) ==
    {i \in 1..Len(raw.rows) :
        /\ PassesNameAndPrice(raw.rows[i])
        /\ NegativeStock(raw.rows[i])
        /\ \A j \in 1..(i - 1) :
            PassesNameAndPrice(raw.rows[j]) =>
                raw.rows[j]["product_id"] # raw.rows[i]["product_id"]}

\* The rule about the product whose only defect is a negative stock: it is
\* in the cleaned table with stock 0, and 'negative_stock_fixed' counts the
\* rows that reached the repair with a negative stock.
NegativeStockRepaired ==
    LET raw == raw_datasets["products"]
        cleaned == cleaned_datasets["products"]
    IN /\ \A i \in OnlyNegativeStock(raw) :
            \E r \in RangeOf(cleaned.rows) :
                /\ r.idx = raw.rows[i].idx
                /\ r["stock_quantity"] = <<0>>
       /\ RowsAffected(RunLog, "products", {"negative_stock_fixed"}) =
            Cardinality({i \in 1..Len(raw.rows) :
                            PassesNameAndPrice(raw.rows[i])
                            /\ NegativeStock(raw.rows[i])})

\* C13 as stated: every row of the cleaned Products table has a
\* stock_quantity, and it is >= 0; a product whose only defect is a negative
\* stock is kept with stock 0 and counted under 'negative_stock_fixed'.
C13_StockNonNegative ==
    pc = "cleaned_products" =>
        /\ \A r \in RangeOf(cleaned_datasets["products"].rows) :
            /\ "stock_quantity" \in DOMAIN r
            /\ ~isna(r["stock_quantity"])
            /\ V(r["stock_quantity"]) >= 0
        /\ "stock_quantity" \in raw_datasets["products"].cols =>
            NegativeStockRepaired

\* C13 amended: no row of the cleaned Products table has a negative
\* stock_quantity (a missing one stays missing); a product whose only defect
\* is a negative stock is kept with stock 0 and counted under
\* 'negative_stock_fixed'.
C13_StockNullOrNonNegative ==
    (pc = "cleaned_products"
     /\ "stock_quantity" \in raw_datasets["products"].cols) =>
        /\ \A r \in RangeOf(cleaned_datasets["products"].rows) :
            isna(r["stock_quantity"]) \/ V(r["stock_quantity"]) >= 0
        /\ NegativeStockRepaired

\* A product with stock -3 and no other defect was kept with stock 0 and
\* counted as fixed, and no product was counted as removed.
C13_Witness ==
    /\ pc = "cleaned_products"
    /\ OnlyNegativeStock(raw_datasets["products"]) # {}
    /\ \E r \in RangeOf(cleaned_datasets["products"].rows) :
        r["stock_quantity"] = <<0>>
        /\ \E p \in RangeOf(raw_datasets["products"].rows) :
            p.idx = r.idx /\ p["stock_quantity"] = <<-3>>
    /\ RowsAffected(RunLog, "products", {"negative_stock_fixed"}) = 1
    /\ RowsAffected(RunLog, "products", RemovalActions) = 0

\* C14: the cleaning log and the validation errors a completed run reports
\* (the cleaning_summary and validation_errors files generate_reports
\* writes) hold the entries of that run only, on every call of run() on the
\* object, so that the reported removal counts add up against the raw and
\* cleaned tables of that run.
C14_ReportsOnlyThisRun ==
    Completed =>
        /\ saved["cleaning_summary"] = RunLog
        /\ "validation_errors" \in DOMAIN saved =>
            saved["validation_errors"] = RunErrors
        /\ \A n \in DatasetNames :
            summary[n].raw_count =
                summary[n].clean_count
                + RowsAffected(saved["cleaning_summary"], n, RemovalActions)

\* C15: no row of the table clean_orders returns has a null order_id, and
\* no row of the table clean_products returns has a null product_id.
C15_IdsNeverNull ==
    /\ pc = "cleaned_products" =>
        \A r \in RangeOf(cleaned_datasets["products"].rows) :
            ~isna(r["product_id"])
    /\ pc = "cleaned_orders" =>
        \A r \in RangeOf(cleaned_datasets["orders"].rows) :
            ~isna(r["order_id"])

\* The positions of the raw rows that carry the product_id id and pass the
\* name and the price rules.
ValidWithProductId(raw, id) ==
    {i \in 1..Len(raw.rows) :
        raw.rows[i]["product_id"] = id /\ PassesNameAndPrice(raw.rows[i])}

Least(S) == CHOOSE i \in S : \A j \in S : i <= j

\* C16: when clean_products has returned, a product_id that some raw row
\* carries with a name and a valid price is in the cleaned table once, on the
\* first such row in input order (an earlier invalid row with the id does
\* not displace it), and a product_id with no such row is not in it.
C16_FirstValidProductSurvives ==
    pc = "cleaned_products" =>
        LET raw == raw_datasets["products"]
            cleaned == cleaned_datasets["products"]
        IN \A id \in IdsOf(raw, "product_id") :
            LET valid == ValidWithProductId(raw, id)
                kept == {r \in RangeOf(cleaned.rows) : r["product_id"] = id}
            IN IF valid = {} THEN kept = {}
               ELSE /\ Cardinality(kept) = 1
                    /\ \A r \in kept : r.idx = raw.rows[Least(valid)].idx

\* The first row with an id was invalid and the second, valid, survived
\* without any row counted as a duplicate id.
C16_Witness ==
    /\ pc = "cleaned_products"
    /\ LET raw == raw_datasets["products"]
       IN /\ Len(raw.rows) = 2
          /\ raw.rows[1]["product_id"] = raw.rows[2]["product_id"]
          /\ ~PassesNameAndPrice(raw.rows[1])
          /\ PassesNameAndPrice(raw.rows[2])
    /\ Len(cleaned_datasets["products"].rows) = 1
    /\ cleaned_datasets["products"].rows[1].idx = 1
    /\ RowsAffected(RunLog, "products", {"duplicate_ids_removed"}) = 0

\* The raw orders that reach the duplicate-id rule: date, status and
\* customer pass.
ReachesIdRule(o) ==
    /\ ReachesCustomerCheck(o)
    /\ o["customer_id"] \in IdsOf(cleaned_datasets["customers"], "customer_id")

\* The positions of the rows of raw that survive: their labels are in cleaned.
Survivors(raw, cleaned) ==
    {i \in 1..Len(raw.rows) :
        \E r \in RangeOf(cleaned.rows) : r.idx = raw.rows[i].idx}

\* C17 as stated: when clean_orders has returned, of the raw Orders rows
\* that share an order_id only the first-encountered survives, and each later
\* one is removed and counted under 'duplicate_ids_removed'.
C17_FirstOfSharedIdSurvives ==
    pc = "cleaned_orders" =>
        LET raw == raw_datasets["orders"]
            later == {j \in 1..Len(raw.rows) :
                        \E i \in 1..(j - 1) :
                            raw.rows[i]["order_id"] = raw.rows[j]["order_id"]}
            shared == {i \in 1..Len(raw.rows) \ later :
                        \E j \in later :
                            raw.rows[i]["order_id"] = raw.rows[j]["order_id"]}
        IN /\ Survivors(raw, cleaned_datasets["orders"]) \cap later = {}
           /\ shared \subseteq Survivors(raw, cleaned_datasets["orders"])
           /\ RowsAffected(RunLog, "orders", {"duplicate_ids_removed"})
                = Cardinality(later)

\* C17 amended: among the raw Orders rows that pass the date, status and
\* customer rules, of those that share an order_id only the
\* first-encountered survives, and each later one is removed and counted
\* under 'duplicate_ids_removed'.
C17_FirstValidOfSharedIdSurvives ==
    pc = "cleaned_orders" =>
        LET raw == raw_datasets["orders"]
            valid == {i \in 1..Len(raw.rows) : ReachesIdRule(raw.rows[i])}
            later == {j \in valid :
                        \E i \in valid :
                            i < j /\ raw.rows[i]["order_id"] = raw.rows[j]["order_id"]}
        IN /\ Survivors(raw, cleaned_datasets["orders"]) = valid \ later
           /\ RowsAffected(RunLog, "orders", {"duplicate_ids_removed"})
                = Cardinality(later)

\* Two orders that pass every other rule shared an order_id: the first
\* survived and the later one was counted under 'duplicate_ids_removed'.
C17_Witness ==
    /\ pc = "cleaned_orders"
    /\ LET raw == raw_datasets["orders"]
       IN \E i, j \in 1..Len(raw.rows) :
            /\ i < j
            /\ raw.rows[i]["order_id"] = raw.rows[j]["order_id"]
            /\ raw.rows[i] # [raw.rows[j] EXCEPT !.idx = raw.rows[i].idx]
            /\ ReachesIdRule(raw.rows[i]) /\ ReachesIdRule(raw.rows[j])
            /\ i \in Survivors(raw, cleaned_datasets["orders"])
            /\ j \notin Survivors(raw, cleaned_datasets["orders"])
    /\ RowsAffected(RunLog, "orders", {"duplicate_ids_removed"}) = 1


\* A quantity cell (in halves) that is null, zero, negative or not whole.
BadQuantity(q) == isna(q) \/ V(q) <= 0 \/ V(q) % 2 # 0

\* C18: when clean_order_items has returned, every cleaned item has a whole
\* quantity > 0 and a price_per_unit > 0, and the raw items whose quantity
\* is null, zero, negative or not a whole number are gone and are the ones
\* counted under 'invalid_quantity_removed'.
C18_QuantityWholeAndPositive ==
    pc = "cleaned_order_items" =>
        LET raw == raw_datasets["order_items"]
            cleaned == cleaned_datasets["order_items"]
            bad == {i \in 1..Len(raw.rows) : BadQuantity(raw.rows[i]["quantity"])}
        IN /\ \A r \in RangeOf(cleaned.rows) :
                /\ ~BadQuantity(r["quantity"])
                /\ ~isna(r["price_per_unit"]) /\ V(r["price_per_unit"]) > 0
           /\ Survivors(raw, cleaned) \cap bad = {}
           /\ RowsAffected(RunLog, "order_items", {"invalid_quantity_removed"})
                = Cardinality(bad)

\* run() stands before one of its four cleaner calls.
BeforeCleaner ==
    pc \in {"loaded", "cleaned_customers", "cleaned_products", "cleaned_orders"}

\* C19: a cleaner call leaves the raw tables as they were loaded, the one it
\* is given included, and leaves every cleaned table made so far, the
\* parents passed to it included, as it was.
C19_CleanersLeaveInputs ==
    [][BeforeCleaner =>
        /\ raw_datasets' = raw_datasets
        /\ \A n \in DOMAIN cleaned_datasets :
            /\ n \in DOMAIN cleaned_datasets'
            /\ cleaned_datasets'[n] = cleaned_datasets[n]]_vars

\* The four cleaners have run: the stock of a product was repaired and
\* orders and items were removed against their parents, and the raw tables
\* are still what read_csv made of the files.
C19_Witness ==
    /\ pc = "cleaned_order_items"
    /\ raw_datasets = load_all_datasets(files)
    /\ RowsAffected(RunLog, "products", {"negative_stock_fixed"}) >= 1
    /\ \E p \in RangeOf(raw_datasets["products"].rows) : NegativeStock(p)
    /\ RowsAffected(RunLog, "orders", {"orphaned_customer_id"}) >= 1
    /\ RowsAffected(RunLog, "order_items", {"orphaned_order_id"}) >= 1
    /\ cleaned_datasets["customers"].rows # <<>>

\* The positions of the raw customers left by the removal of the exact
\* duplicates, and among them the first position of each customer_id.
AfterExactDuplicates(raw) ==
    {i \in 1..Len(raw.rows) : i \notin duplicated(raw, raw.cols)}

FirstOfCustomerId(raw) ==
    {i \in AfterExactDuplicates(raw) :
        \A j \in AfterExactDuplicates(raw) :
            j < i => raw.rows[j]["customer_id"] # raw.rows[i]["customer_id"]}

LacksName(c) == isna(c["first_name"]) \/ isna(c["last_name"])

\* C20: when clean_customers has returned, a customer_id whose first row
\* (after the removal of the exact duplicates) lacks first_name or last_name
\* is the customer_id of no row of the cleaned table, even when a later row
\* with the id is complete; the later rows of every id are the ones counted
\* under 'duplicate_ids_removed' and the first rows that lack a critical
\* field the ones counted under 'missing_critical_removed'.
C20_FirstRowDecides ==
    pc = "cleaned_customers" =>
        LET raw == raw_datasets["customers"]
            first == FirstOfCustomerId(raw)
        IN /\ \A i \in first :
                LacksName(raw.rows[i]) =>
                    \A r \in RangeOf(cleaned_datasets["customers"].rows) :
                        r["customer_id"] # raw.rows[i]["customer_id"]
           /\ RowsAffected(RunLog, "customers", {"duplicate_ids_removed"})
                = Cardinality(AfterExactDuplicates(raw) \ first)
           /\ RowsAffected(RunLog, "customers", {"missing_critical_removed"})
                = Cardinality({i \in first :
                                LacksName(raw.rows[i])
                                \/ isna(raw.rows[i]["customer_id"])})

Spec == Init /\ [][Next]_vars

====
